---- MODULE Spec2Model ----
(***************************************************************************)
(* apps-ports (src/src/main.rs): discovery of the processes bound to       *)
(* listening TCP ports from the ss, netstat and lsof utilities, resolution *)
(* of a docker-proxy process to its container, and the interactive kill    *)
(* flow.                                                                   *)
(*                                                                         *)
(* Text is a sequence of one-character strings; an index is 1-based and 0  *)
(* stands for "not found".  An Option is a sequence of length 0 (None) or  *)
(* 1 (Some).  The result of launching an external utility is a record      *)
(* [ok, success, stdout]: ok is FALSE when the utility could not be        *)
(* launched (Err of Command::output), success is its exit status.          *)
(***************************************************************************)
EXTENDS Integers, Sequences, FiniteSets, TLC

VARIABLES
    pc,          \* position in main / in the function under analysis
    host,        \* what the external utilities report (see below)
    nread,       \* lines read so far from the output of the current probe
    found,       \* try_ss_command: `processes` of the current ss run
    facts,       \* what the lines fed to parse_ss_line in this run carried
    ssRuns,      \* the ss runs completed by try_ss_command, in order
    ssResult,    \* Option<Vec<ProcessInfo>> returned by try_ss_command
    processes,   \* get_processes_using_ports: `processes`
    dropped,     \* the records netstat and lsof parsed and did not push
    port,        \* the PORT argument of --port / --kill
    kill_docker, \* the --kill-docker-container flag
    filtered,    \* kill_process_by_port: the records of the requested port
    idx,         \* index in filtered of the record being handled
    events,      \* prompts, answers, invocations and messages for that record
    arg,         \* argument of the function under analysis
    argParts,    \* the pieces arg was assembled from
    result       \* value returned by the function under analysis

vars == <<pc, host, nread, found, facts, ssRuns, ssResult, processes, dropped, port,
          kill_docker, filtered, idx, events, arg, argParts, result>>

(***************************************************************************)
(* Bounds of the model.                                                    *)
(***************************************************************************)
MaxSsLines == 2
MaxFallbackLines == 1
MaxSpaces == 2
MaxContainers == 2

(***************************************************************************)
(* Text primitives (the std::str methods the program uses).                *)
(***************************************************************************)
None == << >>
Some(x) == <<x>>
IsSome(o) == Len(o) = 1
Unwrap(o) == o[1]

SetMin(S) == CHOOSE m \in S : \A k \in S : m <= k
SetMax(S) == CHOOSE m \in S : \A k \in S : m >= k

IsWhitespace(c) == c \in {" ", "\t", "\n"}

StartsAt(sub, s, i) ==
    /\ i + Len(sub) - 1 <= Len(s)
    /\ \A k \in 1..Len(sub) : s[i + k - 1] = sub[k]

\* str::find: index of the first occurrence, 0 when there is none.
Find(sub, s) ==
    LET hits == {i \in 1..(Len(s) - Len(sub) + 1) : StartsAt(sub, s, i)}
    IN  IF hits = {} THEN 0 ELSE SetMin(hits)

\* str::rfind: index of the last occurrence, 0 when there is none.
RFind(sub, s) ==
    LET hits == {i \in 1..(Len(s) - Len(sub) + 1) : StartsAt(sub, s, i)}
    IN  IF hits = {} THEN 0 ELSE SetMax(hits)

Contains(sub, s) == Find(sub, s) # 0

\* s[i..] and s[..i] of Rust with 1-based i: From keeps s[i], Upto drops it.
From(s, i) == SubSeq(s, i, Len(s))
Upto(s, i) == SubSeq(s, 1, i - 1)

\* str::split(c): the pieces between the occurrences of the character c.
RECURSIVE Split(_, _)
Split(s, c) ==
    LET p == Find(<<c>>, s)
    IN  IF p = 0 THEN <<s>>
        ELSE <<Upto(s, p)>> \o Split(From(s, p + 1), c)

\* str::split_whitespace: the maximal runs of non-whitespace characters.
RECURSIVE SplitWhitespace(_)
SplitWhitespace(s) ==
    LET starts == {i \in 1..Len(s) : ~IsWhitespace(s[i])}
    IN  IF starts = {} THEN << >>
        ELSE LET b == SetMin(starts)
                 stops == {i \in b..Len(s) : IsWhitespace(s[i])}
                 e == IF stops = {} THEN Len(s) + 1 ELSE SetMin(stops)
             IN  <<SubSeq(s, b, e - 1)>> \o SplitWhitespace(From(s, e))

\* str::lines: split at line feeds, the last line's line feed optional.
RECURSIVE Lines(_)
Lines(s) ==
    IF s = << >> THEN << >>
    ELSE LET p == Find(<<"\n">>, s)
         IN  IF p = 0 THEN <<s>>
             ELSE <<Upto(s, p)>> \o Lines(From(s, p + 1))

\* str::trim
Trim(s) ==
    LET keep == {i \in 1..Len(s) : ~IsWhitespace(s[i])}
    IN  IF keep = {} THEN << >> ELSE SubSeq(s, SetMin(keep), SetMax(keep))

UpperCase == <<"Y","E","S","N","O">>
LowerCase == <<"y","e","s","n","o">>
LowerChar(c) ==
    LET hits == {i \in 1..Len(UpperCase) : UpperCase[i] = c}
    IN  IF hits = {} THEN c ELSE LowerCase[SetMin(hits)]

\* str::to_lowercase, on the letters the answers are written with.
ToLowercase(s) == [i \in 1..Len(s) |-> LowerChar(s[i])]

Digits == <<"0","1","2","3","4","5","6","7","8","9">>
DigitValue(c) == SetMin({i \in 1..Len(Digits) : Digits[i] = c}) - 1
IsDigit(c) == \E i \in 1..Len(Digits) : Digits[i] = c

\* A u32 is represented by its canonical decimal text (no sign, no leading
\* zeros), which is what u32::to_string prints.
U32MaxText == <<"4","2","9","4","9","6","7","2","9","5">>

Canonical(body) ==
    LET nz == {i \in 1..Len(body) : body[i] # "0"}
    IN  IF nz = {} THEN <<"0">> ELSE From(body, SetMin(nz))

\* a <= b for two canonical decimal texts.
DecimalLeq(a, b) ==
    \/ Len(a) < Len(b)
    \/ /\ Len(a) = Len(b)
       /\ \/ a = b
          \/ \E i \in 1..Len(a) :
                /\ DigitValue(a[i]) < DigitValue(b[i])
                /\ \A j \in 1..(i - 1) : a[j] = b[j]

\* str::parse::<u32>: an optional '+', then one or more digits, in range.
ParseU32(word) ==
    LET body == IF word # << >> /\ word[1] = "+" THEN Tail(word) ELSE word
    IN  IF /\ body # << >>
           /\ \A i \in 1..Len(body) : IsDigit(body[i])
           /\ DecimalLeq(Canonical(body), U32MaxText)
        THEN Some(Canonical(body))
        ELSE None

\* u32::to_string, on that representation.
u32_to_string(n) == n

\* Text assembled by the utilities: pieces joined by a separator.
RECURSIVE Join(_, _)
Join(pieces, sep) ==
    IF pieces = << >> THEN << >>
    ELSE IF Len(pieces) = 1 THEN pieces[1]
    ELSE pieces[1] \o sep \o Join(Tail(pieces), sep)

RECURSIVE Concat(_)
Concat(pieces) ==
    IF pieces = << >> THEN << >> ELSE pieces[1] \o Concat(Tail(pieces))

Spaces(n) == [i \in 1..n |-> " "]
Line(s) == s \o <<"\n">>

(***************************************************************************)
(* The external utilities.  host describes what they report:               *)
(*   psOk      whether ps can be launched                                  *)
(*   procs     the process table, a set of [pid, cmd, comm]                *)
(*   lsofPort  the result of `lsof -i :<port> -P -n`                       *)
(*   fuser     the result of `fuser <port>/tcp`                            *)
(*   docker    [ok, containers]: whether docker can be launched and the    *)
(*             running containers [id, name, ip, image] in `docker ps`     *)
(*             order                                                       *)
(***************************************************************************)
NotLaunched == [ok |-> FALSE, success |-> FALSE, stdout |-> << >>]
Exited(success, text) == [ok |-> TRUE, success |-> success, stdout |-> text]

\* `ps -p <pid> -o <column> --no-headers`
RunPs(h, pid, column) ==
    IF ~h.psOk THEN NotLaunched
    ELSE LET known == {p \in h.procs : p.pid = pid}
         IN  IF known = {} THEN Exited(FALSE, << >>)
             ELSE LET p == CHOOSE q \in known : TRUE
                  IN  Exited(TRUE, Line(IF column = "cmd" THEN p.cmd ELSE p.comm))

\* `docker ps --format "{{.ID}} {{.Names}}" --no-trunc`
RunDockerPs(d) ==
    IF ~d.ok THEN NotLaunched
    ELSE Exited(TRUE, Concat([i \in 1..Len(d.containers) |->
                    Line(d.containers[i].id \o <<" ">> \o d.containers[i].name)]))

\* `docker inspect -f <template> <container_id>`, the template printing the
\* container's IP addresses ("ip") or its configured image ("image").
RunDockerInspect(d, field, container_id) ==
    IF ~d.ok THEN NotLaunched
    ELSE LET known == {i \in 1..Len(d.containers) : d.containers[i].id = container_id}
         IN  IF known = {} THEN Exited(FALSE, << >>)
             ELSE LET c == d.containers[SetMin(known)]
                  IN  Exited(TRUE, Line(IF field = "ip" THEN c.ip ELSE c.image))

(***************************************************************************)
(* The program's functions.                                                *)
(***************************************************************************)
DockerProxy == <<"d","o","c","k","e","r","-","p","r","o","x","y">>
ContainerIpFlag == <<"-","c","o","n","t","a","i","n","e","r","-","i","p"," ">>
ContainerIpFlagLen == 14
UsersKey == <<"u","s","e","r","s",":">>
PidKey == <<"p","i","d","=">>
PidKeyLen == 4
Listen == <<"L","I","S","T","E","N">>
Unknown == <<"U","n","k","n","o","w","n">>
UnknownName == <<"u","n","k","n","o","w","n">>
Hidden == <<"h","i","d","d","e","n">>
HiddenName == <<"(","e","l","e","v","a","t","e","d"," ","p","r","i","v","i","l","e","g","e","s"," ","r","e","q","u","i","r","e","d",")">>
HiddenCommand == <<"R","u","n"," ","w","i","t","h"," ","'","s","u","d","o","'"," ","t","o"," ","s","e","e"," ","p","r","o","c","e","s","s"," ","d","e","t","a","i","l","s">>
NetstatMinCols == 7
LsofMinCols == 9
SsMinCols == 4
SsProcCols == 6

get_command_by_pid(h, pid) ==
    LET output == RunPs(h, pid, "cmd")
    IN  IF output.ok THEN Trim(output.stdout) ELSE Unknown

get_process_name_by_pid(h, pid) ==
    LET output == RunPs(h, pid, "comm")
    IN  IF output.ok THEN Trim(output.stdout) ELSE UnknownName

get_container_ip(h, container_id) ==
    LET output == RunDockerInspect(h.docker, "ip", container_id)
    IN  IF output.ok /\ Trim(output.stdout) # << >>
        THEN Some(Trim(output.stdout))
        ELSE None

get_container_image(h, container_id) ==
    LET output == RunDockerInspect(h.docker, "image", container_id)
    IN  IF output.ok /\ Trim(output.stdout) # << >>
        THEN Trim(output.stdout)
        ELSE UnknownName

\* find_container_by_ip going through the whole list: the last match wins.
find_container_by_ip_last(h, container_ip) ==
    LET output == RunDockerPs(h.docker)
        lines == IF output.ok THEN Lines(output.stdout) ELSE << >>
        matches(i) ==
            LET parts == SplitWhitespace(lines[i])
            IN  /\ parts # << >>
                /\ get_container_ip(h, parts[1]) = Some(container_ip)
        hits == {i \in 1..Len(lines) : matches(i)}
    IN  IF hits = {} THEN None
        ELSE Some(SplitWhitespace(lines[SetMax(hits)])[1])

\* The loop returns at the first line whose container has the IP.
find_container_by_ip(h, container_ip) ==
    LET output == RunDockerPs(h.docker)
        lines == IF output.ok THEN Lines(output.stdout) ELSE << >>
        matches(i) ==
            LET parts == SplitWhitespace(lines[i])
            IN  /\ parts # << >>
                /\ get_container_ip(h, parts[1]) = Some(container_ip)
        hits == {i \in 1..Len(lines) : matches(i)}
    IN  IF hits = {} THEN None
        ELSE Some(SplitWhitespace(lines[SetMin(hits)])[1])

extract_container_id_from_docker_proxy(h, command) ==
    LET container_ip_pos == Find(ContainerIpFlag, command)
    IN  IF container_ip_pos = 0 THEN None
        ELSE LET after_container_ip == From(command, container_ip_pos + ContainerIpFlagLen)
                 space_pos == Find(<<" ">>, after_container_ip)
             IN  IF space_pos = 0 THEN None
                 ELSE find_container_by_ip(h, Upto(after_container_ip, space_pos))

\* The pair (container id, image).
get_docker_info_from_command(h, command) ==
    IF Contains(DockerProxy, command)
    THEN LET container_id == extract_container_id_from_docker_proxy(h, command)
         IN  IF IsSome(container_id)
             THEN <<Unwrap(container_id), get_container_image(h, Unwrap(container_id))>>
             ELSE <<<< >>, << >>>>
    ELSE <<<< >>, << >>>>

create_process_info(h, p, pid, process_name, command) ==
    LET docker == get_docker_info_from_command(h, command)
    IN  [port |-> p, pid |-> pid, process_name |-> process_name,
         command |-> command,
         docker_container_id |-> docker[1], docker_image |-> docker[2]]

parse_netstat_line(h, line) ==
    LET parts == SplitWhitespace(line)
    IN  IF Len(parts) >= NetstatMinCols
        THEN LET address == parts[4]
                 pieces == Split(address, ":")
                 pid_info == parts[7]
                 pid_parts == Split(pid_info, "/")
             IN  IF pid_info # <<"-">> /\ Len(pid_parts) >= 2
                 THEN Some(create_process_info(h, pieces[Len(pieces)],
                              pid_parts[1], pid_parts[2],
                              get_command_by_pid(h, pid_parts[1])))
                 ELSE None
        ELSE None

\* parse_lsof_line taking the address from the last column of eight or more.
parse_lsof_line_last_column(h, line) ==
    LET parts == SplitWhitespace(line)
    IN  IF Len(parts) >= LsofMinCols - 1
        THEN LET pieces == Split(parts[Len(parts)], ":")
             IN  Some(create_process_info(h, Split(pieces[Len(pieces)], "(")[1],
                          parts[2], parts[1], get_command_by_pid(h, parts[2])))
        ELSE None

parse_lsof_line(h, line) ==
    LET parts == SplitWhitespace(line)
    IN  IF Len(parts) >= LsofMinCols
        THEN LET process_name == parts[1]
                 pid == parts[2]
                 address == parts[9]
                 pieces == Split(address, ":")
                 port_part == pieces[Len(pieces)]
             IN  Some(create_process_info(h, Split(port_part, "(")[1],
                          pid, process_name, get_command_by_pid(h, pid)))
        ELSE None

find_process_by_port(h, p) ==
    LET lsof == h.lsofPort
        lines == IF lsof.ok THEN Lines(lsof.stdout) ELSE << >>
        \* skip(1): the header is never looked at
        listening == {i \in 2..Len(lines) : Contains(Listen, lines[i])}
        fuser == h.fuser
        words == IF fuser.ok THEN SplitWhitespace(fuser.stdout) ELSE << >>
        pids == {i \in 1..Len(words) : IsSome(ParseU32(words[i]))}
    IN  IF listening # {}
        THEN parse_lsof_line(h, lines[SetMin(listening)])
        ELSE IF pids # {}
        THEN LET pid_str == u32_to_string(Unwrap(ParseU32(words[SetMin(pids)])))
             IN  Some(create_process_info(h, p, pid_str,
                          get_process_name_by_pid(h, pid_str),
                          get_command_by_pid(h, pid_str)))
        ELSE None

\* The record of the `users:` column, None when it does not parse.
ss_users_record(h, p, parts) ==
    IF Len(parts) >= SsProcCols /\ Contains(UsersKey, parts[6])
    THEN LET process_info == parts[6]
             pid_start == Find(PidKey, process_info)
             pid_part == From(process_info, pid_start + PidKeyLen)
             pid_end == Find(<<",">>, pid_part)
             name_start == Find(<<"\"">>, process_info)
             after_quote == From(process_info, name_start + 1)
             name_end == Find(<<"\"">>, after_quote)
         IN  IF pid_start # 0 /\ pid_end # 0 /\ name_start # 0 /\ name_end # 0
             THEN LET pid == Upto(pid_part, pid_end)
                  IN  Some(create_process_info(h, p, pid,
                               Upto(after_quote, name_end),
                               get_command_by_pid(h, pid)))
             ELSE None
    ELSE None

\* parse_ss_line giving up, as parse_netstat_line does, when the owner of the
\* socket cannot be found.
parse_ss_line_dropping(h, line) ==
    LET parts == SplitWhitespace(line)
    IN  IF Len(parts) >= SsMinCols
        THEN LET local_address == parts[4]
                 colon_pos == RFind(<<":">>, local_address)
                 p == From(local_address, colon_pos + 1)
                 users == ss_users_record(h, p, parts)
             IN  IF colon_pos = 0 THEN None
                 ELSE IF IsSome(users) THEN users
                 ELSE find_process_by_port(h, p)
        ELSE None

parse_ss_line(h, line) ==
    LET parts == SplitWhitespace(line)
    IN  IF Len(parts) >= SsMinCols
        THEN LET local_address == parts[4]
                 colon_pos == RFind(<<":">>, local_address)
                 p == From(local_address, colon_pos + 1)
                 users == ss_users_record(h, p, parts)
                 looked_up == find_process_by_port(h, p)
             IN  IF colon_pos = 0 THEN None
                 ELSE IF IsSome(users) THEN users
                 ELSE IF IsSome(looked_up) THEN looked_up
                 ELSE Some(create_process_info(h, p, Hidden, HiddenName, HiddenCommand))
        ELSE None

(***************************************************************************)
(* What the utilities may print.  A probe reads its utility's output line  *)
(* by line; every line is one of the pool of the utility.  After its first *)
(* line the output of ss has at most MaxSsLines lines, that of netstat and *)
(* of lsof at most MaxFallbackLines.                                       *)
(***************************************************************************)
SsHeader == <<"S","t","a","t","e"," ","R","e","c","v","-","Q"," ","S","e","n","d","-","Q"," ","L","o","c","a","l"," ","A","d","d","r","e","s","s",":","P","o","r","t"," ","P","e","e","r"," ","A","d","d","r","e","s","s",":","P","o","r","t"," ","P","r","o","c","e","s","s">>
SsUsersV4 == <<"L","I","S","T","E","N"," ","0"," ","1","2","8"," ","0",".","0",".","0",".","0",":","8","0"," ","0",".","0",".","0",".","0",":","*"," ","u","s","e","r","s",":","(","(","\"","n","o","d","e","\"",",","p","i","d","=","7",",","f","d","=","3",")",")">>
SsUsersV6 == <<"L","I","S","T","E","N"," ","0"," ","1","2","8"," ","[",":",":","]",":","8","0"," ","[",":",":","]",":","*"," ","u","s","e","r","s",":","(","(","\"","n","o","d","e","\"",",","p","i","d","=","7",",","f","d","=","3",")",")">>
SsPlainV4 == <<"L","I","S","T","E","N"," ","0"," ","1","2","8"," ","0",".","0",".","0",".","0",":","8","0"," ","0",".","0",".","0",".","0",":","*">>
SsPlain22 == <<"L","I","S","T","E","N"," ","0"," ","1","2","8"," ","*",":","2","2"," ","*",":","*">>
SsNoColon == <<"L","I","S","T","E","N"," ","0"," ","1","2","8"," ","l","o","c","a","l"," ","p","e","e","r">>
SsShort == <<"L","I","S","T","E","N"," ","0"," ","1","2","8">>

\* Without --processes ss prints no users: column.
SsLinesWithProcesses == {SsHeader, SsUsersV4, SsUsersV6, SsPlain22, SsNoColon, SsShort}
SsLinesPlain == {SsHeader, SsPlainV4, SsPlain22, SsNoColon, SsShort}

NetstatHeader == <<"P","r","o","t","o"," ","R","e","c","v","-","Q"," ","S","e","n","d","-","Q"," ","L","o","c","a","l"," ","A","d","d","r","e","s","s"," ","F","o","r","e","i","g","n"," ","A","d","d","r","e","s","s"," ","S","t","a","t","e"," ","P","I","D","/","P","r","o","g","r","a","m"," ","n","a","m","e">>
NetstatNode == <<"t","c","p"," ","0"," ","0"," ","0",".","0",".","0",".","0",":","8","0"," ","0",".","0",".","0",".","0",":","*"," ","L","I","S","T","E","N"," ","7","/","n","o","d","e","j","s">>
NetstatNode6 == <<"t","c","p","6"," ","0"," ","0"," ",":",":",":","8","0"," ",":",":",":","*"," ","L","I","S","T","E","N"," ","7","/","n","o","d","e","j","s">>
NetstatSshd == <<"t","c","p"," ","0"," ","0"," ","0",".","0",".","0",".","0",":","2","2"," ","0",".","0",".","0",".","0",":","*"," ","L","I","S","T","E","N"," ","9","/","s","s","h","d">>
NetstatDash == <<"t","c","p"," ","0"," ","0"," ","0",".","0",".","0",".","0",":","2","2"," ","0",".","0",".","0",".","0",":","*"," ","L","I","S","T","E","N"," ","-">>
NetstatLines == {NetstatHeader, NetstatNode, NetstatNode6, NetstatSshd, NetstatDash}

LsofHeader == <<"C","O","M","M","A","N","D"," ","P","I","D"," ","U","S","E","R"," ","F","D"," ","T","Y","P","E"," ","D","E","V","I","C","E"," ","S","I","Z","E","/","O","F","F"," ","N","O","D","E"," ","N","A","M","E">>
LsofNode == <<"n","o","d","e"," ","7"," ","u","s","e","r"," ","2","0","u"," ","I","P","v","4"," ","1","2","3","4","5"," ","0","t","0"," ","T","C","P"," ","*",":","8","0"," ","(","L","I","S","T","E","N",")">>
LsofSshd == <<"s","s","h","d"," ","9"," ","r","o","o","t"," ","3","u"," ","I","P","v","4"," ","1","2","3","4","6"," ","0","t","0"," ","T","C","P"," ","*",":","2","2"," ","(","L","I","S","T","E","N",")">>
LsofNginx == <<"n","g","i","n","x"," ","5"," ","r","o","o","t"," ","6","u"," ","I","P","v","4"," ","1","2","3","4","7"," ","0","t","0"," ","T","C","P"," ","*",":","8","0"," ","(","L","I","S","T","E","N",")">>
LsofShort == <<"s","s","h","d"," ","9"," ","r","o","o","t"," ","(","L","I","S","T","E","N",")">>
LsofLines == {LsofHeader, LsofNode, LsofSshd, LsofNginx, LsofShort}

Printed(lines) == Exited(TRUE, Concat([i \in 1..Len(lines) |-> Line(lines[i])]))

ProxyCommand == <<"/","u","s","r","/","b","i","n","/","d","o","c","k","e","r","-","p","r","o","x","y"," ","-","p","r","o","t","o"," ","t","c","p"," ","-","h","o","s","t","-","p","o","r","t"," ","8","0"," ","-","c","o","n","t","a","i","n","e","r","-","i","p"," ","1","7","2",".","1","7",".","0",".","2"," ","-","c","o","n","t","a","i","n","e","r","-","p","o","r","t"," ","8","0">>
Ip2 == <<"1","7","2",".","1","7",".","0",".","2">>
Ip3 == <<"1","7","2",".","1","7",".","0",".","3">>
ContainerIds == <<<<"c","0","f","f","e","e","0","1">>, <<"c","0","f","f","e","e","0","2">>, <<"c","0","f","f","e","e","0","3">>>>
Web == <<"w","e","b">>
Nginx == <<"n","g","i","n","x",":","l","a","t","e","s","t">>

ProxyTable ==
    {[pid |-> <<"7">>, cmd |-> ProxyCommand, comm |-> DockerProxy],
     [pid |-> <<"9">>, cmd |-> <<"/","u","s","r","/","s","b","i","n","/","s","s","h","d"," ","-","D">>, comm |-> <<"s","s","h","d">>],
     [pid |-> <<"5">>, cmd |-> <<"n","g","i","n","x",":"," ","m","a","s","t","e","r"," ","p","r","o","c","e","s","s">>, comm |-> <<"n","g","i","n","x">>]}
NodeTable == {[pid |-> <<"7">>, cmd |-> <<"n","o","d","e"," ","a","p","p",".","j","s">>, comm |-> <<"n","o","d","e">>]}

\* (lsof -i :<port>, fuser <port>/tcp) as find_process_by_port may see them
PointLookups ==
    { <<Printed(<<LsofHeader>>), NotLaunched>>,
      <<Printed(<<LsofHeader, LsofSshd>>), NotLaunched>>,
      <<Printed(<<LsofHeader, LsofShort>>), Exited(TRUE, <<" ","9","\n">>)>>,
      <<NotLaunched, Exited(TRUE, <<" ","2","2","/","t","c","p",":"," ","0","0","9"," ","7","\n">>)>> }

NoDocker == [ok |-> FALSE, containers |-> << >>]

DockerStates ==
    { NoDocker,
      [ok |-> TRUE, containers |->
          <<[id |-> ContainerIds[1], name |-> Web, ip |-> Ip3, image |-> Nginx],
            [id |-> ContainerIds[2], name |-> Web, ip |-> Ip2, image |-> << >>]>>] }

\* docker is consulted only for a docker-proxy command line, which only the
\* first process table has.
Hosts ==
    {[psOk |-> TRUE, procs |-> ProxyTable, lsofPort |-> l[1], fuser |-> l[2],
      docker |-> d] : l \in PointLookups, d \in DockerStates}
    \cup
    {[psOk |-> ok, procs |-> IF ok THEN NodeTable ELSE {}, lsofPort |-> l[1],
      fuser |-> l[2], docker |-> NoDocker] : l \in PointLookups, ok \in BOOLEAN}

(***************************************************************************)
(* get_processes_using_ports and try_ss_command.                           *)
(***************************************************************************)
SamePair(a, b) == a.pid = b.pid /\ a.port = b.port

\* PushIfNew without the look through the list.
PushAlways(list, parsed) ==
    IF IsSome(parsed) THEN Append(list, Unwrap(parsed)) ELSE list

\* lines 84-86 and 104-106: push unless a record with its pid and port is there
PushIfNew(list, parsed) ==
    IF IsSome(parsed) /\ ~\E i \in 1..Len(list) : SamePair(list[i], Unwrap(parsed))
    THEN Append(list, Unwrap(parsed))
    ELSE list

\* The record a probe parsed and PushIfNew leaves out, added to the set.
Refused(set, list, parsed) ==
    IF IsSome(parsed) /\ \E i \in 1..Len(list) : SamePair(list[i], Unwrap(parsed))
    THEN set \cup {Unwrap(parsed)}
    ELSE set

\* lines 323-325: push whatever parses
PushParsed(list, parsed) ==
    IF IsSome(parsed) THEN Append(list, Unwrap(parsed)) ELSE list

\* What a line fed to parse_ss_line carries, read off the line itself: the
\* text after the last ':' of its local-address column and whether some
\* column holds `users:`.  None for a line without a ':' in that column.
SsLineFacts(line) ==
    LET parts == SplitWhitespace(line)
    IN  IF Len(parts) >= SsMinCols /\ \E i \in 1..Len(parts[4]) : parts[4][i] = ":"
        THEN LET a == parts[4]
                 last == SetMax({i \in 1..Len(a) : a[i] = ":"})
             IN  Some([p |-> SubSeq(a, last + 1, Len(a)),
                       users |-> \E k \in 1..Len(parts) : Contains(UsersKey, parts[k])])
        ELSE None

InSs == pc \in {"ss_processes", "ss_plain"}

KillIdle ==
    UNCHANGED <<port, kill_docker, filtered, idx, events>>
CallIdle ==
    UNCHANGED <<arg, argParts, result>>

\* SsRunEnds with `processes` declared outside the loop and no early return:
\* the second run is always made and adds to the records of the first.
SsRunEnds_accumulating(launched) ==
    /\ ssRuns' = Append(ssRuns, [with_processes |-> pc = "ss_processes",
                                 launched |-> launched,
                                 facts |-> facts, found |-> found])
    /\ IF pc = "ss_processes"
       THEN /\ pc' = "ss_plain"
            /\ UNCHANGED <<ssResult, processes, found, facts>>
       ELSE /\ ssResult' = IF found # << >> THEN Some(found) ELSE None
            /\ processes' = processes \o found
            /\ pc' = "netstat"
            /\ found' = << >> /\ facts' = << >>
    /\ nread' = 0
    /\ UNCHANGED <<host, dropped>> /\ KillIdle /\ CallIdle

\* The end of one iteration of try_ss_command's loop over the argument lists.
SsRunEnds(launched) ==
    /\ ssRuns' = Append(ssRuns, [with_processes |-> pc = "ss_processes",
                                 launched |-> launched,
                                 facts |-> facts, found |-> found])
    /\ IF found # << >>
       THEN /\ ssResult' = Some(found)
            /\ processes' = processes \o found
            /\ pc' = "netstat"
       ELSE IF pc = "ss_processes"
       THEN /\ pc' = "ss_plain"
            /\ UNCHANGED <<ssResult, processes>>
       ELSE /\ ssResult' = None
            /\ pc' = "netstat"
            /\ UNCHANGED processes
    /\ nread' = 0 /\ found' = << >> /\ facts' = << >>
    /\ UNCHANGED <<host, dropped>> /\ KillIdle /\ CallIdle

\* line 318: ss could not be launched
SsNotLaunched ==
    /\ InSs /\ nread = 0
    /\ SsRunEnds(FALSE)

\* lines 322-326: one line of the output of ss, the first one skipped
SsReadLine ==
    /\ InSs /\ nread <= MaxSsLines
    /\ \E line \in IF pc = "ss_processes" THEN SsLinesWithProcesses ELSE SsLinesPlain :
          IF nread = 0
          THEN UNCHANGED <<found, facts>>
          ELSE /\ found' = PushParsed(found, parse_ss_line(host, line))
               /\ facts' = PushParsed(facts, SsLineFacts(line))
    /\ nread' = nread + 1
    /\ UNCHANGED <<pc, host, ssRuns, ssResult, processes, dropped>>
    /\ KillIdle /\ CallIdle

\* lines 328-330: the output of ss is exhausted
SsEndOfOutput ==
    /\ InSs
    /\ SsRunEnds(TRUE)

ProbeEnds(next) ==
    /\ pc' = next /\ nread' = 0
    /\ UNCHANGED <<host, found, facts, ssRuns, ssResult, processes, dropped>>
    /\ KillIdle /\ CallIdle

\* line 78: netstat could not be launched
NetstatNotLaunched == pc = "netstat" /\ nread = 0 /\ ProbeEnds("lsof")

\* lines 80-89: one line of the output of netstat -tlnp
NetstatReadLine ==
    /\ pc = "netstat" /\ nread <= MaxFallbackLines
    /\ \E line \in NetstatLines :
          LET parsed == IF Contains(Listen, line)
                        THEN parse_netstat_line(host, line)
                        ELSE None
          IN  /\ processes' = PushIfNew(processes, parsed)
              /\ dropped' = Refused(dropped, processes, parsed)
    /\ nread' = nread + 1
    /\ UNCHANGED <<pc, host, found, facts, ssRuns, ssResult>> /\ KillIdle /\ CallIdle

NetstatEndOfOutput == pc = "netstat" /\ ProbeEnds("lsof")

\* line 99: lsof could not be launched
LsofNotLaunched == pc = "lsof" /\ nread = 0 /\ ProbeEnds("returned")

\* lines 101-108: one line of the output of lsof, the first one skipped
LsofReadLine ==
    /\ pc = "lsof" /\ nread <= MaxFallbackLines
    /\ \E line \in LsofLines :
          LET parsed == IF nread = 0 THEN None ELSE parse_lsof_line(host, line)
          IN  /\ processes' = PushIfNew(processes, parsed)
              /\ dropped' = Refused(dropped, processes, parsed)
    /\ nread' = nread + 1
    /\ UNCHANGED <<pc, host, found, facts, ssRuns, ssResult>> /\ KillIdle /\ CallIdle

LsofEndOfOutput == pc = "lsof" /\ ProbeEnds("returned")

get_processes_using_ports ==
    \/ SsNotLaunched \/ SsReadLine \/ SsEndOfOutput
    \/ NetstatNotLaunched \/ NetstatReadLine \/ NetstatEndOfOutput
    \/ LsofNotLaunched \/ LsofReadLine \/ LsofEndOfOutput

(***************************************************************************)
(* main's dispatch, list_all_processes and show_process_by_port.  What is  *)
(* written to the terminal, read from it and invoked is logged in events   *)
(* as records [kind, what, text, exit].                                    *)
(***************************************************************************)
Ports == {<<"8","0">>, <<"2","2">>, <<"4","4","3">>}

Prompt(what, text) == [kind |-> "prompt", what |-> what, text |-> text, exit |-> ""]
Answer(what, read) ==
    [kind |-> "answer", what |-> what, text |-> read.line,
     exit |-> IF read.ok THEN "read" ELSE "read error"]
Invoke(what, text, output) ==
    [kind |-> "run", what |-> what, text |-> text,
     exit |-> IF ~output.ok THEN "not launched"
              ELSE IF output.success THEN "exit 0" ELSE "exit 1"]
Message(what, text) == [kind |-> "print", what |-> what, text |-> text, exit |-> ""]

\* What a line read from the terminal may be; ok is FALSE when read_line fails.
StdinReads ==
    {[ok |-> TRUE, line |-> l] :
        l \in {<<"y","\n">>, <<" ","Y","E","S","\n">>, <<"n","\n">>, <<"y","e","s","!","\n">>, << >>}}
    \cup {[ok |-> FALSE, line |-> << >>]}

\* How kill, sudo and docker may end.
ToolResults == {NotLaunched, Exited(TRUE, << >>), Exited(FALSE, << >>)}

\* get_user_confirmation taking a failed read for a yes.
get_user_confirmation_yes_on_error(read) ==
    IF read.ok
    THEN LET input == ToLowercase(Trim(read.line))
         IN  input = <<"y">> \/ input = <<"y","e","s">>
    ELSE TRUE

get_user_confirmation(read) ==
    IF read.ok
    THEN LET input == ToLowercase(Trim(read.line))
         IN  input = <<"y">> \/ input = <<"y","e","s">>
    ELSE FALSE

\* processes.into_iter().filter(|p| p.port == port).collect()
FilterByPort(list, p) == SelectSeq(list, LAMBDA r : r.port = p)

\* get_processes_using_ports has returned and its list is moved out.
Returned ==
    /\ pc = "returned"
    /\ processes' = << >> /\ ssRuns' = << >> /\ ssResult' = None /\ dropped' = {}
    /\ UNCHANGED <<host, nread, found, facts>> /\ CallIdle

list_all_processes ==
    /\ Returned
    /\ events' = <<Message(IF processes = << >> THEN "No processes found using ports."
                           ELSE "table", << >>)>>
    /\ pc' = "done"
    /\ UNCHANGED <<port, kill_docker, filtered, idx>>

show_process_by_port ==
    /\ Returned
    /\ \E p \in Ports :
          /\ port' = p
          /\ filtered' = FilterByPort(processes, p)
          /\ events' = <<Message(IF filtered' = << >> THEN "No process found using port"
                                 ELSE "table", p)>>
    /\ pc' = "done"
    /\ UNCHANGED <<kill_docker, idx>>

(***************************************************************************)
(* kill_process_by_port and kill_docker_container, one action per prompt   *)
(* answered and per utility invoked.  pc = "handled" is the end of the     *)
(* loop body for filtered[idx].                                            *)
(***************************************************************************)
Discovered ==
    UNCHANGED <<host, nread, found, facts, ssRuns, ssResult, processes, dropped>>
SameRecord == UNCHANGED <<port, kill_docker, filtered, idx>>

process == filtered[idx]

\* The container the pending container prompt names.
ContainerAsked ==
    LET asked == {i \in 1..Len(events) :
                    events[i].kind = "prompt" /\ events[i].what = "container"}
    IN  events[SetMax(asked)].text

\* lines 248-260
KillStart ==
    /\ Returned
    /\ \E p \in Ports, flag \in BOOLEAN :
          /\ port' = p
          /\ kill_docker' = flag
          /\ filtered' = FilterByPort(processes, p)
    /\ IF filtered' = << >>
       THEN /\ events' = <<Message("No process found using port", port')>>
            /\ idx' = 0
            /\ pc' = "done"
       ELSE /\ events' = <<Message("Found process(es) using port", port')>>
            /\ idx' = 1
            /\ pc' = "record"

\* lines 264-276: is this a docker-proxy whose container is to be stopped?
CheckDockerProxy ==
    /\ pc = "record"
    /\ IF kill_docker /\ Contains(DockerProxy, process.command)
       THEN LET container_id == extract_container_id_from_docker_proxy(host, process.command)
            IN  IF IsSome(container_id)
                THEN /\ events' = Append(events, Prompt("container", Unwrap(container_id)))
                     /\ pc' = "container_prompt"
                ELSE /\ events' = Append(events,
                            Message("Could not extract container ID", << >>))
                     /\ pc' = "kill_prompt"
       ELSE /\ pc' = "kill_prompt"
            /\ UNCHANGED events
    /\ Discovered /\ SameRecord /\ CallIdle

\* line 269
AnswerContainerPrompt ==
    /\ pc = "container_prompt"
    /\ \E read \in StdinReads :
          /\ events' = Append(events, Answer("container", read))
          /\ pc' = IF get_user_confirmation(read) THEN "docker_stop" ELSE "kill_prompt"
    /\ Discovered /\ SameRecord /\ CallIdle

\* DockerStop without the `continue` of line 271 when the stop fails: the loop
\* body goes on to the process prompt.
DockerStop_falling_through ==
    /\ pc = "docker_stop"
    /\ \E output \in ToolResults :
          LET ran == Append(events, Invoke("docker stop", ContainerAsked, output))
          IN  IF output.ok /\ output.success
              THEN /\ events' = ran \o <<Message("Successfully stopped", ContainerAsked),
                                         Prompt("remove", ContainerAsked)>>
                   /\ pc' = "remove_prompt"
              ELSE /\ events' = Append(ran,
                          Message(IF output.ok THEN "Failed to stop container"
                                  ELSE "Failed to execute docker stop", ContainerAsked))
                   /\ pc' = "kill_prompt"
    /\ Discovered /\ SameRecord /\ CallIdle

\* kill_docker_container, lines 490-519 up to the removal prompt
DockerStop ==
    /\ pc = "docker_stop"
    /\ \E output \in ToolResults :
          LET ran == Append(events, Invoke("docker stop", ContainerAsked, output))
          IN  IF output.ok /\ output.success
              THEN /\ events' = ran \o <<Message("Successfully stopped", ContainerAsked),
                                         Prompt("remove", ContainerAsked)>>
                   /\ pc' = "remove_prompt"
              ELSE /\ events' = Append(ran,
                          Message(IF output.ok THEN "Failed to stop container"
                                  ELSE "Failed to execute docker stop", ContainerAsked))
                   /\ pc' = "handled"
    /\ Discovered /\ SameRecord /\ CallIdle

\* line 504
AnswerRemovePrompt ==
    /\ pc = "remove_prompt"
    /\ \E read \in StdinReads :
          /\ events' = Append(events, Answer("remove", read))
          /\ pc' = IF get_user_confirmation(read) THEN "docker_rm" ELSE "handled"
    /\ Discovered /\ SameRecord /\ CallIdle

\* lines 505-511
DockerRm ==
    /\ pc = "docker_rm"
    /\ \E output \in ToolResults :
          events' = events \o
              <<Invoke("docker rm", ContainerAsked, output),
                Message(IF output.ok THEN "Removed" ELSE "Failed to remove container",
                        ContainerAsked)>>
    /\ pc' = "handled"
    /\ Discovered /\ SameRecord /\ CallIdle

\* lines 278-281 and 303-305
AnswerKillPrompt ==
    /\ pc = "kill_prompt"
    /\ \E read \in StdinReads :
          LET asked == events \o <<Prompt("kill", process.pid), Answer("kill", read)>>
          IN  IF get_user_confirmation(read)
              THEN /\ events' = asked
                   /\ pc' = "kill"
              ELSE /\ events' = Append(asked, Message("Skipped killing process", process.pid))
                   /\ pc' = "handled"
    /\ Discovered /\ SameRecord /\ CallIdle

\* The arm of `match StdCommand::new("kill").arg(&process.pid).output()`
\* (lines 282-302) taken for an output: Ok(_) whenever kill was launched.
KillReported(output) ==
    IF output.ok
    THEN <<Message("Killed process", process.pid)>>
    ELSE <<Message("Failed to kill process", process.pid),
           Prompt("sudo", process.pid)>>

\* lines 282-291
Kill ==
    /\ pc = "kill"
    /\ \E output \in ToolResults :
          /\ events' = Append(events, Invoke("kill", process.pid, output))
                       \o KillReported(output)
          /\ pc' = IF output.ok THEN "handled" ELSE "sudo_prompt"
    /\ Discovered /\ SameRecord /\ CallIdle

\* line 292
AnswerSudoPrompt ==
    /\ pc = "sudo_prompt"
    /\ \E read \in StdinReads :
          /\ events' = Append(events, Answer("sudo", read))
          /\ pc' = IF get_user_confirmation(read) THEN "sudo_kill" ELSE "handled"
    /\ Discovered /\ SameRecord /\ CallIdle

\* lines 293-299
SudoKill ==
    /\ pc = "sudo_kill"
    /\ \E output \in ToolResults :
          events' = events \o
              <<Invoke("sudo kill", process.pid, output),
                Message(IF output.ok THEN "Killed process with sudo"
                        ELSE "Failed to kill process even with sudo", process.pid)>>
    /\ pc' = "handled"
    /\ Discovered /\ SameRecord /\ CallIdle

\* line 262: the loop goes on to the next record, or ends
NextRecord ==
    /\ pc = "handled"
    /\ IF idx < Len(filtered)
       THEN /\ idx' = idx + 1
            /\ events' = << >>
            /\ pc' = "record"
       ELSE /\ pc' = "done"
            /\ UNCHANGED <<idx, events>>
    /\ UNCHANGED <<port, kill_docker, filtered>>
    /\ Discovered /\ CallIdle

kill_process_by_port ==
    \/ KillStart \/ CheckDockerProxy \/ AnswerContainerPrompt
    \/ DockerStop \/ AnswerRemovePrompt \/ DockerRm
    \/ AnswerKillPrompt \/ Kill \/ AnswerSudoPrompt \/ SudoKill
    \/ NextRecord

(***************************************************************************)
(* The program: main runs get_processes_using_ports and then lists, shows  *)
(* one port or kills.                                                      *)
(***************************************************************************)
Init ==
    /\ pc = "ss_processes"
    /\ host \in Hosts
    /\ nread = 0 /\ found = << >> /\ facts = << >>
    /\ ssRuns = << >> /\ ssResult = None /\ processes = << >>
    /\ dropped = {}
    /\ port = << >> /\ kill_docker = FALSE /\ filtered = << >> /\ idx = 0
    /\ events = << >>
    /\ arg = << >> /\ argParts = << >> /\ result = None

Next ==
    \/ get_processes_using_ports
    \/ list_all_processes \/ show_process_by_port
    \/ kill_process_by_port

Spec == Init /\ [][Next]_vars

(***************************************************************************)
(* parse_lsof_line on its own: the line is assembled from columns joined   *)
(* by one to MaxSpaces spaces.                                             *)
(***************************************************************************)
ExampleLine == <<"n","o","d","e"," ","1","2","3","4"," ","u","s","e","r"," ","I","P","v","4"," ","0"," ","0","t","0"," ","T","C","P"," ","*",":","3","0","0","0","(","L","I","S","T","E","N",")">>
ExampleColumns ==
    <<<<"n","o","d","e">>, <<"1","2","3","4">>, <<"u","s","e","r">>, <<"I","P","v","4">>, <<"0">>, <<"0","t","0">>, <<"T","C","P">>, <<"*",":","3","0","0","0","(","L","I","S","T","E","N",")">>>>

LsofColumns(name, pid) ==
    <<name, pid, <<"u","s","e","r">>, <<"2","0","u">>, <<"I","P","v","4">>, <<"1","2","3","4","5">>, <<"0","t","0">>, <<"T","C","P">>>>
LsofAddresses ==
    {<<"*",":","3","0","0","0">>, <<"*",":","3","0","0","0","(","L","I","S","T","E","N",")">>, <<"[",":",":","1","]",":","8","0">>, <<"1","2","7",".","0",".","0",".","1",":","2","2">>, <<"l","o","c","a","l">>, <<":">>}
LsofState == <<"(","L","I","S","T","E","N",")">>

\* The columns of the lines parse_lsof_line is called with: a prefix of the
\* eight columns before the address, the address, and the state or not.
LsofLineColumns ==
    {ExampleColumns}
    \cup {SubSeq(LsofColumns(name, pid), 1, k) \o <<address>> \o state :
            name \in {<<"n","o","d","e">>, <<"s","s","h","d">>}, pid \in {<<"1","2","3","4">>, <<"7">>},
            k \in 6..8, address \in LsofAddresses,
            state \in {<< >>, <<LsofState>>}}

CallHosts ==
    {[psOk |-> ok, procs |-> NodeTable, lsofPort |-> NotLaunched,
      fuser |-> NotLaunched, docker |-> NoDocker] : ok \in BOOLEAN}

NoDiscovery ==
    /\ nread = 0 /\ found = << >> /\ facts = << >>
    /\ ssRuns = << >> /\ ssResult = None /\ processes = << >> /\ dropped = {}
    /\ port = << >> /\ kill_docker = FALSE /\ filtered = << >> /\ idx = 0
    /\ events = << >>

Returns ==
    UNCHANGED <<host, nread, found, facts, ssRuns, ssResult, processes, dropped,
                port, kill_docker, filtered, idx, events, arg, argParts>>

InitLsof ==
    /\ pc = "call parse_lsof_line"
    /\ host \in CallHosts
    /\ \E columns \in LsofLineColumns, width \in 1..MaxSpaces :
          /\ argParts = columns
          /\ arg = Join(columns, Spaces(width))
    /\ result = None
    /\ NoDiscovery

CallParseLsofLine ==
    /\ pc = "call parse_lsof_line"
    /\ result' = parse_lsof_line(host, arg)
    /\ pc' = "parse_lsof_line returned"
    /\ Returns

NextLsof == CallParseLsofLine

SpecLsof == InitLsof /\ [][NextLsof]_vars

(***************************************************************************)
(* get_docker_info_from_command on its own: the command line is a program  *)
(* with its first arguments, then `-container-ip <IP>` or not, then the    *)
(* arguments that follow or none; docker runs at most MaxContainers        *)
(* containers.                                                             *)
(***************************************************************************)
ProxyProgram == <<"/","u","s","r","/","b","i","n","/","d","o","c","k","e","r","-","p","r","o","x","y"," ","-","p","r","o","t","o"," ","t","c","p"," ","-","h","o","s","t","-","p","o","r","t"," ","8","0">>
NodeProgram == <<"n","o","d","e"," ","a","p","p",".","j","s">>
Programs == {ProxyProgram, NodeProgram}
Trailers == {<< >>, <<" ","-","c","o","n","t","a","i","n","e","r","-","p","o","r","t"," ","8","0">>}
CommandParts ==
    {[program |-> program, ip |-> ip, rest |-> rest] :
        program \in Programs, ip \in {None, Some(Ip2), Some(Ip3)}, rest \in Trailers}

CommandOf(parts) ==
    parts.program
    \o (IF IsSome(parts.ip) THEN <<" ">> \o ContainerIpFlag \o Unwrap(parts.ip) ELSE << >>)
    \o parts.rest

SeqsOfIds ==
    UNION {[1..k -> {ContainerIds[i] : i \in 1..Len(ContainerIds)}] : k \in 0..MaxContainers}

\* docker ps lists a container once.
ContainerLists ==
    {ids \in SeqsOfIds : \A i, j \in 1..Len(ids) : i # j => ids[i] # ids[j]}

DockerEnvs ==
    {NoDocker}
    \cup UNION {
          {[ok |-> TRUE,
            containers |-> [i \in 1..Len(ids) |->
                              [id |-> ids[i], name |-> Web,
                               ip |-> ips[i], image |-> images[i]]]] :
              ips \in [1..Len(ids) -> {<< >>, Ip2, Ip3}],
              images \in [1..Len(ids) -> {<< >>, Nginx}]} :
          ids \in ContainerLists}

InitCorrelate ==
    /\ pc = "call get_docker_info_from_command"
    /\ \E d \in DockerEnvs :
          host = [psOk |-> FALSE, procs |-> {}, lsofPort |-> NotLaunched,
                  fuser |-> NotLaunched, docker |-> d]
    /\ argParts \in CommandParts
    /\ arg = CommandOf(argParts)
    /\ result = None
    /\ NoDiscovery

CallGetDockerInfo ==
    /\ pc = "call get_docker_info_from_command"
    /\ result' = get_docker_info_from_command(host, arg)
    /\ pc' = "get_docker_info_from_command returned"
    /\ Returns

NextCorrelate == CallGetDockerInfo

SpecCorrelate == InitCorrelate /\ [][NextCorrelate]_vars

(***************************************************************************)
(* Properties.                                                             *)
(***************************************************************************)
IsPrefix(s, t) == Len(s) <= Len(t) /\ SubSeq(t, 1, Len(s)) = s

At(kind, what) ==
    {i \in 1..Len(events) : events[i].kind = kind /\ events[i].what = what}

\* y or yes in any mix of cases, with whitespace around it or not.
YesWords ==
    {<<a>> : a \in {"y", "Y"}}
    \cup {<<a, b, c>> : a \in {"y", "Y"}, b \in {"e", "E"}, c \in {"s", "S"}}

Affirmative(line) ==
    \E i, j \in 1..Len(line) :
        /\ i <= j
        /\ SubSeq(line, i, j) \in YesWords
        /\ \A k \in 1..Len(line) : (k < i \/ k > j) => IsWhitespace(line[k])

SaysYes(e) == e.exit = "read" /\ Affirmative(e.text)

KillRuns == At("run", "kill") \cup At("run", "sudo kill")

\* C1: the list get_processes_using_ports returns holds no two records with
\* the same pid and the same port.
C1_UniquePairs ==
    pc = "returned" =>
        \A i, j \in 1..Len(processes) : i < j => ~SamePair(processes[i], processes[j])

\* C2: the probes are merged in the order ss, netstat, lsof; a step of a
\* probe leaves every record of the list where it is and as it is; a record
\* netstat or lsof parses whose pid and port are in the list is not pushed,
\* and a record they push has a pid and port no earlier record has.
C2_Step ==
    /\ pc \in {"ss_processes", "ss_plain", "netstat", "lsof"} =>
          IsPrefix(processes, processes')
    /\ pc \in {"ss_processes", "ss_plain"} => processes = << >>
    /\ (pc = "ss_processes" /\ pc' # pc) => pc' \in {"ss_plain", "netstat"}
    /\ (pc = "ss_plain" /\ pc' # pc) => pc' = "netstat"
    /\ (pc = "netstat" /\ pc' # pc) => pc' = "lsof"
    /\ (pc = "lsof" /\ pc' # pc) => pc' = "returned"
    /\ pc \in {"netstat", "lsof"} =>
          /\ \A j \in (Len(processes) + 1)..Len(processes') :
                \A i \in 1..(j - 1) : ~SamePair(processes'[i], processes'[j])
          /\ \A d \in dropped' :
                \E i \in 1..Len(processes') : SamePair(processes'[i], d)
          /\ dropped' # dropped => processes' = processes
C2_MergeOrder == [][C2_Step]_vars

\* A record of ss is kept in its place although a later probe parsed a record
\* with its pid and port and other fields, and a later probe also added one.
C2_Witness ==
    /\ pc = "returned"
    /\ IsSome(ssResult)
    /\ Len(processes) > Len(Unwrap(ssResult))
    /\ \E d \in dropped : \E i \in 1..Len(Unwrap(ssResult)) :
          SamePair(processes[i], d) /\ processes[i] # d

\* C3: kill and sudo kill are invoked for the pid of the record being handled
\* and only after an affirmative answer to that record's process-kill prompt;
\* after any other answer neither is invoked and Skipped is reported next.
C3_DeclinedIsSkipped ==
    /\ \A k \in KillRuns :
          /\ events[k].text = process.pid
          /\ \E a \in At("answer", "kill") : a < k /\ SaysYes(events[a])
    /\ \A a \in At("answer", "kill") :
          ~SaysYes(events[a]) =>
              /\ KillRuns = {}
              /\ a < Len(events)
              /\ events[a + 1] = Message("Skipped killing process", process.pid)

\* With --kill-docker-container, the container prompt declined, the process
\* prompt is answered "yes!" and the record is skipped.
C3_Witness ==
    /\ pc = "handled"
    /\ kill_docker
    /\ At("answer", "container") # {}
    /\ \E a \in At("answer", "kill") : events[a].text = <<"y", "e", "s", "!", "\n">>
    /\ At("print", "Skipped killing process") # {}

\* C4: a confirmed kill that fails (not launched, or exit status not 0) is
\* reported as failed and followed by the offer of sudo kill; Killed is
\* printed only after a kill that succeeded.
C4_KillFailureOffersSudo ==
    \A i \in 1..Len(events) :
        /\ (i \in At("run", "kill") /\ events[i].exit # "exit 0") =>
              /\ i + 2 <= Len(events)
              /\ events[i + 1] = Message("Failed to kill process", process.pid)
              /\ events[i + 2] = Prompt("sudo", process.pid)
        /\ i \in At("print", "Killed process") =>
              /\ i - 1 \in At("run", "kill")
              /\ events[i - 1].exit = "exit 0"

\* The port of an address column: what follows its last ':' (all of it when
\* it has none), up to the first '(' of that.
PortOfAddress(address) ==
    LET colons == {i \in 1..Len(address) : address[i] = ":"}
        tail == IF colons = {} THEN address
                ELSE SubSeq(address, SetMax(colons) + 1, Len(address))
        parens == {i \in 1..Len(tail) : tail[i] = "("}
    IN  IF parens = {} THEN tail ELSE SubSeq(tail, 1, SetMin(parens) - 1)

\* C5 as stated: the line `node 1234 user IPv4 0 0t0 TCP *:3000(LISTEN)`
\* parses to port 3000, pid 1234 and process name node.
C5_ExampleParses ==
    (pc = "parse_lsof_line returned" /\ arg = ExampleLine) =>
        /\ IsSome(result)
        /\ Unwrap(result).port = <<"3", "0", "0", "0">>
        /\ Unwrap(result).pid = <<"1", "2", "3", "4">>
        /\ Unwrap(result).process_name = <<"n", "o", "d", "e">>

\* C5, amended: parse_lsof_line accepts exactly the lines of nine columns or
\* more, so not the eight-column example line; for a line it accepts,
\* process_name is column 0, pid is column 1 and port is the text of column 8
\* after its last ':' (the whole column when it has none) up to the first '('.
C5_ParseLsofLine ==
    pc = "parse_lsof_line returned" =>
        /\ arg = ExampleLine => result = None
        /\ IsSome(result) <=> Len(argParts) >= 9
        /\ IsSome(result) =>
              /\ Unwrap(result).process_name = argParts[1]
              /\ Unwrap(result).pid = argParts[2]
              /\ Unwrap(result).port = PortOfAddress(argParts[9])

\* The example with the FD and DEVICE columns of lsof and its state column
\* apart, `node 1234 user 20u IPv4 12345 0t0 TCP *:3000 (LISTEN)` with two
\* spaces between the columns, parses to 3000, 1234, node.
C5_Witness ==
    /\ pc = "parse_lsof_line returned"
    /\ Len(argParts) = 10
    /\ argParts[9] = <<"*", ":", "3", "0", "0", "0">>
    /\ Len(arg) > Len(Join(argParts, <<" ">>))
    /\ IsSome(result)
    /\ Unwrap(result).port = <<"3", "0", "0", "0">>
    /\ Unwrap(result).pid = <<"1", "2", "3", "4">>
    /\ Unwrap(result).process_name = <<"n", "o", "d", "e">>

HiddenCase(f) == ~f.users /\ find_process_by_port(host, f.p) = None

IsHiddenRecord(r, p) ==
    /\ r.pid = Hidden
    /\ r.process_name = HiddenName
    /\ r.command # << >>
    /\ r.port = p

KeptLines(lineFacts, records) ==
    /\ Len(records) = Len(lineFacts)
    /\ \A k \in 1..Len(lineFacts) :
          HiddenCase(lineFacts[k]) => IsHiddenRecord(records[k], lineFacts[k].p)

\* C6: every line of ss with a ':' in its local-address column gives a record
\* (and no other line does); a line without users: whose port
\* find_process_by_port finds nothing for gives the record with pid hidden,
\* the placeholder name, a non-empty command and the port of the line; and
\* the records of the run try_ss_command returns are in the list
\* get_processes_using_ports returns.
C6_SsLineKept ==
    /\ KeptLines(facts, found)
    /\ \A r \in 1..Len(ssRuns) : KeptLines(ssRuns[r].facts, ssRuns[r].found)
    /\ pc \in {"netstat", "lsof", "returned"} =>
          \A r \in 1..Len(ssRuns) : \A k \in 1..Len(ssRuns[r].found) :
              \E i \in 1..Len(processes) : processes[i] = ssRuns[r].found[k]

\* The list returned holds a hidden record for port 22.
C6_Witness ==
    /\ pc = "returned"
    /\ \E r \in 1..Len(ssRuns) : \E k \in 1..Len(ssRuns[r].facts) :
          /\ HiddenCase(ssRuns[r].facts[k])
          /\ \E i \in 1..Len(processes) :
                /\ processes[i] = ssRuns[r].found[k]
                /\ IsHiddenRecord(processes[i], <<"2", "2">>)

\* What the claim expects of a docker-proxy command carrying the IP: the
\* first running container with that IP and its image, or the empty pair.
FirstWithIp(ip) ==
    LET containers == host.docker.containers
        hits == {i \in 1..Len(containers) : containers[i].ip = ip}
    IN  IF ~host.docker.ok \/ hits = {} THEN <<<< >>, << >>>>
        ELSE LET c == containers[SetMin(hits)]
             IN  <<c.id, IF c.image = << >> THEN UnknownName ELSE c.image>>

IsProxyCommand == argParts.program = ProxyProgram

\* C7 as stated: ("", "") without docker-proxy in the command; for a
\* docker-proxy command carrying `-container-ip <IP>` the first running
\* container with that IP, with image "unknown" when its image is empty, and
\* ("", "") when there is none or docker is absent.
C7_Correlate ==
    pc = "get_docker_info_from_command returned" =>
        /\ ~IsProxyCommand => result = <<<< >>, << >>>>
        /\ (IsProxyCommand /\ IsSome(argParts.ip)) =>
              result = FirstWithIp(Unwrap(argParts.ip))

\* C7, amended: as stated, for a docker-proxy command in which a space
\* follows the IP; ("", "") when the IP ends the command line, or when the
\* command has no -container-ip.
C7_CorrelateSpaceAfterIp ==
    pc = "get_docker_info_from_command returned" =>
        /\ ~IsProxyCommand => result = <<<< >>, << >>>>
        /\ (IsProxyCommand /\ IsSome(argParts.ip) /\ argParts.rest # << >>) =>
              /\ argParts.rest[1] = " "
              /\ result = FirstWithIp(Unwrap(argParts.ip))
        /\ (IsProxyCommand /\ (argParts.ip = None \/ argParts.rest = << >>)) =>
              result = <<<< >>, << >>>>

\* Two running containers have the IP of the command: the first listed is
\* returned, with image "unknown" as its image is empty.
C7_Witness ==
    /\ pc = "get_docker_info_from_command returned"
    /\ IsProxyCommand /\ argParts.ip = Some(Ip2) /\ argParts.rest # << >>
    /\ Len(host.docker.containers) >= 2
    /\ host.docker.containers[1].ip = Ip2
    /\ host.docker.containers[2].ip = Ip2
    /\ host.docker.containers[1].image = << >>
    /\ result = <<host.docker.containers[1].id, UnknownName>>

\* C8: the first run of ss is with --processes; the run without it is made
\* exactly when the first could not be launched or gave no record; what
\* try_ss_command returns is the records of one run, those of the last, and
\* None only when no run gave a record.
C8_SsRuns ==
    /\ pc = "ss_processes" => ssRuns = << >>
    /\ pc = "ss_plain" => Len(ssRuns) = 1
    /\ pc \in {"ss_plain", "netstat", "lsof", "returned"} =>
          /\ Len(ssRuns) \in {1, 2}
          /\ ssRuns[1].with_processes
          /\ (Len(ssRuns) = 2 \/ pc = "ss_plain")
                <=> (~ssRuns[1].launched \/ ssRuns[1].found = << >>)
          /\ Len(ssRuns) = 2 => ~ssRuns[2].with_processes
    /\ pc \in {"netstat", "lsof", "returned"} =>
          /\ ssResult = IF ssRuns[Len(ssRuns)].found = << >> THEN None
                        ELSE Some(ssRuns[Len(ssRuns)].found)
          /\ ssResult = None <=> \A r \in 1..Len(ssRuns) : ssRuns[r].found = << >>
          /\ IsSome(ssResult) =>
                Cardinality({r \in 1..Len(ssRuns) : ssRuns[r].found # << >>}) = 1

\* ss --processes was launched and gave no record, the run without it did.
C8_Witness ==
    /\ pc = "netstat"
    /\ Len(ssRuns) = 2
    /\ ssRuns[1].launched /\ ssRuns[1].found = << >>
    /\ ssRuns[2].found # << >>
    /\ ssResult = Some(ssRuns[2].found)

\* C9: docker stop is invoked for the container asked about and only after
\* an affirmative answer to the container prompt; removal is offered only
\* after a docker stop that exited with status 0, and docker rm invoked only
\* after that and an affirmative answer to the removal prompt; once the
\* container prompt is confirmed the record's process is neither asked about
\* nor killed.
C9_ContainerFlow ==
    /\ \A s \in At("run", "docker stop") :
          \E p \in At("prompt", "container"), a \in At("answer", "container") :
              /\ p < a /\ a < s
              /\ SaysYes(events[a])
              /\ events[p].text = events[s].text
    /\ \A q \in At("prompt", "remove") :
          \E s \in At("run", "docker stop") : s < q /\ events[s].exit = "exit 0"
    /\ \A r \in At("run", "docker rm") :
          \E s \in At("run", "docker stop"), q \in At("prompt", "remove"),
             a \in At("answer", "remove") :
              /\ s < q /\ q < a /\ a < r
              /\ events[s].exit = "exit 0"
              /\ SaysYes(events[a])
              /\ events[r].text = events[s].text
    /\ (\E a \in At("answer", "container") : SaysYes(events[a])) =>
          /\ At("prompt", "kill") = {} /\ At("prompt", "sudo") = {}
          /\ KillRuns = {}
    /\ At("run", "docker stop") = {} \/ KillRuns = {}
    /\ Cardinality(At("run", "docker stop")) <= 1

\* A container was stopped and removed.
C9_Witness ==
    /\ pc = "handled"
    /\ At("run", "docker rm") # {}
    /\ At("print", "Removed") # {}

\* C10: kill and sudo kill are never invoked with the placeholder pid hidden.
C10_HiddenNeverKilled ==
    \A k \in KillRuns : events[k].text # Hidden
====
